---- MODULE Spec2Model ----
(***************************************************************************)
(* Model of copy_files_to_agave.py: the AgaveWrapper adapter, the          *)
(* recursive copier copy_from and the entry point main.                    *)
(*                                                                         *)
(* A path string is a sequence of tokens: the separator "/" or a name      *)
(* ("proj", "a", ".", "..").  os.path is posixpath.                        *)
(***************************************************************************)
EXTENDS Integers, Sequences, FiniteSets, TLC

\* ---------------------------------------------------------------- bounds
MaxDepth == 2
MaxNodes == 3
MaxDenied == 1
MaxVanish == 1

\* ------------------------------------------------------- string helpers
Sep == "/"

startswith_sep(p) == p # <<>> /\ p[1] = Sep

endswith_sep(p) == p # <<>> /\ p[Len(p)] = Sep

\* posixpath.join(a, b)
join(a, b) ==
  IF startswith_sep(b) THEN b
  ELSE IF a = <<>> \/ endswith_sep(a) THEN a \o b
  ELSE a \o <<Sep>> \o b

\* str.split('/'): the components, "" for an empty one
RECURSIVE split(_)
split(p) ==
  IF p = <<>> THEN <<"">>
  ELSE IF p[1] = Sep THEN <<"">> \o split(Tail(p))
  ELSE IF Len(p) = 1 THEN <<p[1]>>
  ELSE <<p[1]>> \o split(Tail(Tail(p)))

\* the loop of posixpath.normpath over the components
RECURSIVE normcomps(_, _, _)
normcomps(comps, new_comps, initial_slashes) ==
  IF comps = <<>> THEN new_comps
  ELSE LET comp == Head(comps) IN
    IF comp \in {"", "."} THEN normcomps(Tail(comps), new_comps, initial_slashes)
    ELSE IF comp # ".."
            \/ (initial_slashes = 0 /\ new_comps = <<>>)
            \/ (new_comps # <<>> /\ new_comps[Len(new_comps)] = "..")
      THEN normcomps(Tail(comps), Append(new_comps, comp), initial_slashes)
    ELSE IF new_comps # <<>>
      THEN normcomps(Tail(comps), SubSeq(new_comps, 1, Len(new_comps) - 1), initial_slashes)
    ELSE normcomps(Tail(comps), new_comps, initial_slashes)

\* '/'.join(comps)
RECURSIVE joincomps(_)
joincomps(comps) ==
  IF comps = <<>> THEN <<>>
  ELSE IF Len(comps) = 1 THEN <<comps[1]>>
  ELSE <<comps[1], Sep>> \o joincomps(Tail(comps))

\* posixpath.normpath(path)
normpath(path) ==
  IF path = <<>> THEN <<".">>
  ELSE LET initial_slashes ==
             IF ~startswith_sep(path) THEN 0
             ELSE IF Len(path) >= 2 /\ path[2] = Sep /\ ~(Len(path) >= 3 /\ path[3] = Sep)
               THEN 2 ELSE 1
           body == joincomps(normcomps(split(path), <<>>, initial_slashes))
           r == [i \in 1..initial_slashes |-> Sep] \o body
       IN IF r = <<>> THEN <<".">> ELSE r

\* posixpath.basename(p): what follows the last separator
basename(p) ==
  LET seps == {i \in 1..Len(p) : p[i] = Sep}
      i == IF seps = {} THEN 0 ELSE CHOOSE k \in seps : \A m \in seps : m <= k
  IN SubSeq(p, i + 1, Len(p))

\* ------------------------------------------------------ program constants
\* rootpath given to AgaveWrapper by main
rootpath == <<Sep, "sample", Sep, "biofab">>

\* the directory arguments main is run with
ArgSet ==
  { <<"proj">>, <<"x", Sep, "proj", Sep>>, <<".">>, <<"..">>, <<Sep>> }

\* names of directory entries
Names == {"a", "b"}

\* what a local entry is: a directory, a regular file, an entry that is
\* neither after symlink resolution (special file, broken symlink), a symlink
\* to a directory, a symlink to a regular file
Kinds == {"dir", "file", "other", "linkdir", "linkfile"}

\* ------------------------------------------------------ local filesystem
\* a node is the sequence of names leading to it from the copied directory
Front(n) == SubSeq(n, 1, Len(n) - 1)

Last(n) == n[Len(n)]

NodePaths == UNION { [1..d -> Names] : d \in 1..MaxDepth }

\* os.path.isdir follows symlinks
isdir(k) == k \in {"dir", "linkdir"}

\* variant: a plain else instead of elif os.path.isfile
isfile_any(k) == k # "missing"

\* os.path.isfile follows symlinks
isfile(k) == k \in {"file", "linkfile"}

Shapes ==
  { S \in SUBSET NodePaths :
      /\ Cardinality(S) <= MaxNodes
      /\ \A n \in S : Len(n) > 1 => Front(n) \in S }

\* the local trees a run may meet: a directory with entries, a path that is
\* not a directory, a path that does not exist
Trees ==
  UNION { { f \in [S \cup {<<>>} -> Kinds] :
              /\ f[<<>>] = "dir"
              /\ \A n \in S : isdir(f[Front(n)]) } : S \in Shapes }
  \cup { [n \in {<<>>} |-> "file"], [n \in {} |-> "file"] }

KindOf(f, n) == IF n \in DOMAIN f THEN f[n] ELSE "missing"

IsPrefix(m, n) == Len(m) <= Len(n) /\ SubSeq(n, 1, Len(m)) = m

\* the entries os.listdir returns, in any order
Orderings(S) ==
  { s \in [1..Cardinality(S) -> S] : \A i, j \in 1..Cardinality(S) : i # j => s[i] # s[j] }

listdir(f, n) == Orderings({ name \in Names : Append(n, name) \in DOMAIN f })

VARIABLES
  arg,        \* args.directory
  fs,         \* local tree below the copied directory: node -> kind
  noaccess,   \* nodes the process may not read
  pc,         \* position of the single thread
  stack,      \* copy_from activations: local_path, remote_path, entries left
  cur,        \* arguments of the upload_file call in progress
  handles,    \* local file handles open
  exc,        \* exception pending inside the with block
  calls,      \* remote calls issued so far, in order
  failedAt,   \* index in calls of the remote call that raised, 0 if none
  result,     \* "none" while running, "ok", or the exception that ended the run
  raisedAt,   \* where the exception that is propagating was raised
  raisedNode, \* the node whose access raised it
  race        \* entries removed by another process during the run

vars == <<arg, fs, noaccess, pc, stack, cur, handles, exc, calls, failedAt,
          result, raisedAt, raisedNode, race>>

NoFile == [file_path |-> <<>>, dest_path |-> <<>>, filename |-> <<>>]

Top == stack[Len(stack)]

\* the node a local path names: the names after the copied directory's path
NodeOf(local_path) ==
  SelectSeq(SubSeq(local_path, Len(normpath(arg)) + 1, Len(local_path)),
            LAMBDA t : t # Sep)

Init ==
  /\ arg \in ArgSet
  /\ fs \in Trees
  \* ".", ".." and "/" always name an existing directory
  /\ arg \in {<<".">>, <<"..">>, <<Sep>>} => KindOf(fs, <<>>) = "dir"
  /\ noaccess \in { S \in SUBSET { n \in DOMAIN fs : fs[n] # "other" } :
                      Cardinality(S) <= MaxDenied }
  /\ pc = "main"
  /\ stack = <<>>
  /\ cur = NoFile
  /\ handles = 0
  /\ exc = "none"
  /\ calls = <<>>
  /\ failedAt = 0
  /\ result = "none"
  /\ raisedAt = "none"
  /\ raisedNode = <<>>
  /\ race = {}

\* ------------------------------------------------------------ operations
Frame(local_path, remote_path) ==
  [local_path |-> local_path, remote_path |-> remote_path, todo |-> <<>>]

\* variant: the local path is looked at before the directory is created
copy_from_entry_checked(k) == IF k = "missing" THEN "listdir" ELSE "mkdir"

\* first statement of copy_from
copy_from_entry(k) == "mkdir"

\* variant: the entry name alone, not joined to the current remote path
child_remote_path_flat(remote_path, file) == <<file>>

\* remote_file_path of an entry
child_remote_path(remote_path, file) == join(remote_path, <<file>>)

\* variant: the entry's own remote path is passed as destination
upload_dest_child(remote_path, remote_file_path) == remote_file_path

\* dest_path that copy_from passes to upload_file
upload_dest(remote_path, remote_file_path) == remote_path

\* variant: plain concatenation, no separator
qualified_path_concat(root, dest_path) == root \o dest_path

\* qualified_path of upload_fileobj
qualified_path(root, dest_path) == join(root, dest_path)

\* variant: the handle is closed only when the upload returned
handles_after_exit_leak(h, e) == IF e = "none" THEN h - 1 ELSE h

\* handles open after the with block of upload_file is left
handles_after_exit(h, e) == h - 1

\* variant: the calling activation catches the exception and goes on
Unwind_caught(stk) == SubSeq(stk, 1, Len(stk) - 1)

\* activations left when an exception propagates: nothing catches it
Unwind(stk) == <<>>

Raise(e, at, node) ==
  /\ stack' = Unwind(stack)
  /\ IF Unwind(stack) = <<>>
       THEN pc' = "end" /\ result' = e /\ raisedAt' = at /\ raisedNode' = node
       ELSE pc' = "loop" /\ UNCHANGED <<result, raisedAt, raisedNode>>

MkdirCall(path, node) ==
  [op |-> "mkdir", filePath |-> rootpath, path |-> path, fileName |-> <<>>, node |-> node]

UploadCall(dest_path, filename, node) ==
  [op |-> "upload", filePath |-> qualified_path(rootpath, dest_path),
   path |-> dest_path, fileName |-> filename, node |-> node]

main ==
  /\ pc = "main"
  /\ LET local_path == normpath(arg)
         remote_path == basename(local_path)
     IN /\ stack' = <<Frame(local_path, remote_path)>>
        /\ pc' = copy_from_entry(KindOf(fs, <<>>))
  /\ UNCHANGED <<arg, fs, noaccess, cur, handles, exc, calls, failedAt,
                 result, raisedAt, raisedNode, race>>

\* agave.make_directory(remote_path); the remote call returns or raises
make_directory ==
  /\ pc = "mkdir"
  /\ LET node == NodeOf(Top.local_path) IN
     /\ calls' = Append(calls, MkdirCall(Top.remote_path, node))
     /\ \E ok \in BOOLEAN :
          IF ok
            THEN /\ pc' = "listdir"
                 /\ UNCHANGED <<stack, failedAt, result, raisedAt, raisedNode>>
            ELSE /\ failedAt' = Len(calls) + 1
                 /\ Raise("AgaveError", "mkdir", node)
  /\ UNCHANGED <<arg, fs, noaccess, cur, handles, exc, race>>

\* os.listdir(local_path)
list_directory ==
  /\ pc = "listdir"
  /\ LET node == NodeOf(Top.local_path)
         k == KindOf(fs, node)
     IN IF k = "missing" THEN Raise("FileNotFoundError", "listdir", node)
        ELSE IF ~isdir(k) THEN Raise("NotADirectoryError", "listdir", node)
        ELSE IF node \in noaccess THEN Raise("PermissionError", "listdir", node)
        ELSE /\ \E order \in listdir(fs, node) :
                  stack' = [stack EXCEPT ![Len(stack)].todo = order]
             /\ pc' = "loop"
             /\ UNCHANGED <<result, raisedAt, raisedNode>>
  /\ UNCHANGED <<arg, fs, noaccess, cur, handles, exc, calls, failedAt, race>>

\* one iteration of the for loop of copy_from, or its return
loop ==
  /\ pc = "loop"
  /\ IF Top.todo = <<>>
       THEN /\ stack' = Front(stack)
            /\ IF Len(stack) = 1
                 THEN pc' = "end" /\ result' = "ok"
                 ELSE pc' = "loop" /\ UNCHANGED result
            /\ UNCHANGED cur
       ELSE LET file == Head(Top.todo)
                local_file_path == join(Top.local_path, <<file>>)
                remote_file_path == child_remote_path(Top.remote_path, file)
                k == KindOf(fs, NodeOf(local_file_path))
                rest == [stack EXCEPT ![Len(stack)].todo = Tail(@)]
            IN /\ UNCHANGED result
               /\ IF isdir(k)
                    THEN /\ stack' = Append(rest, Frame(local_file_path, remote_file_path))
                         /\ pc' = copy_from_entry(k)
                         /\ UNCHANGED cur
                  ELSE IF isfile(k)
                    THEN /\ stack' = rest
                         /\ pc' = "open"
                         /\ cur' = [file_path |-> local_file_path,
                                    dest_path |-> upload_dest(Top.remote_path, remote_file_path),
                                    filename |-> <<file>>]
                  ELSE /\ stack' = rest
                       /\ pc' = "loop"
                       /\ UNCHANGED cur
  /\ UNCHANGED <<arg, fs, noaccess, handles, exc, calls, failedAt,
                 raisedAt, raisedNode, race>>

\* open(file_path, 'rb') of upload_file
open_file ==
  /\ pc = "open"
  /\ LET node == NodeOf(cur.file_path)
         k == KindOf(fs, node)
     IN IF k = "missing"
          THEN Raise("FileNotFoundError", "open", node) /\ UNCHANGED handles
        ELSE IF node \in noaccess
          THEN Raise("PermissionError", "open", node) /\ UNCHANGED handles
        ELSE /\ handles' = handles + 1
             /\ pc' = "importData"
             /\ UNCHANGED <<stack, result, raisedAt, raisedNode>>
  /\ UNCHANGED <<arg, fs, noaccess, cur, exc, calls, failedAt, race>>

\* upload_fileobj: the remote call returns or raises
upload_fileobj ==
  /\ pc = "importData"
  /\ calls' = Append(calls, UploadCall(cur.dest_path, cur.filename, NodeOf(cur.file_path)))
  /\ \E ok \in BOOLEAN :
       IF ok THEN exc' = "none" /\ UNCHANGED failedAt
             ELSE exc' = "AgaveError" /\ failedAt' = Len(calls) + 1
  /\ pc' = "exit"
  /\ UNCHANGED <<arg, fs, noaccess, stack, cur, handles, result, raisedAt,
                 raisedNode, race>>

\* leaving the with block of upload_file, normally or by the exception
with_exit ==
  /\ pc = "exit"
  /\ handles' = handles_after_exit(handles, exc)
  /\ exc' = "none"
  /\ IF exc = "none"
       THEN pc' = "loop" /\ UNCHANGED <<stack, result, raisedAt, raisedNode>>
       ELSE Raise(exc, "importData", NodeOf(cur.file_path))
  /\ UNCHANGED <<arg, fs, noaccess, cur, calls, failedAt, race>>

\* another process removes an entry (with what is below it) during the run
Listed(n) ==
  \E i \in 1..Len(stack) :
    \E j \in 1..Len(stack[i].todo) :
      NodeOf(join(stack[i].local_path, <<stack[i].todo[j]>>)) = n

Vanish ==
  /\ pc \notin {"main", "end"}
  /\ Cardinality(race) < MaxVanish
  /\ \E n \in DOMAIN fs :
       /\ fs' = [m \in { x \in DOMAIN fs : ~IsPrefix(n, x) } |-> fs[m]]
       /\ race' = race \cup
            { [node |-> n, kind |-> fs[n], ncalls |-> Len(calls),
               phase |-> IF pc = "open" /\ NodeOf(cur.file_path) = n THEN "checked"
                         ELSE IF Listed(n) THEN "listed"
                         ELSE "other"] }
  /\ UNCHANGED <<arg, noaccess, pc, stack, cur, handles, exc, calls, failedAt,
                 result, raisedAt, raisedNode>>

Next ==
  \/ main
  \/ make_directory
  \/ list_directory
  \/ loop
  \/ open_file
  \/ upload_fileobj
  \/ with_exit

Spec == Init /\ [][Next]_vars

NextFS == Next \/ Vanish

\* runs in which the local tree changes under the copier
InitFS == Init /\ arg = <<"proj">> /\ noaccess = {}

SpecFS == InitFS /\ [][NextFS]_vars

TypeOK ==
  /\ pc \in {"main", "mkdir", "listdir", "loop", "open", "importData", "exit", "end"}
  /\ handles \in 0..1

\* ------------------------------------------------- vocabulary of the claims
MkdirIdx == { i \in 1..Len(calls) : calls[i].op = "mkdir" }

UploadIdx == { i \in 1..Len(calls) : calls[i].op = "upload" }

\* <<"a", "b">> as "/a/b"
RECURSIVE SlashNames(_)
SlashNames(n) == IF n = <<>> THEN <<>> ELSE <<Sep, Head(n)>> \o SlashNames(Tail(n))

\* the remote path that mirrors node n below the remote path main computed
Mirror(n) ==
  LET base == basename(normpath(arg)) IN
  IF base = <<>> THEN (IF n = <<>> THEN <<>> ELSE Tail(SlashNames(n)))
  ELSE base \o SlashNames(n)

\* the remote location a call targets, as the segments below "/":
\* mkdir creates path below filePath, importData writes into filePath
Location(c) ==
  normcomps(split(IF c.op = "mkdir" THEN c.filePath \o <<Sep>> \o c.path ELSE c.filePath),
            <<>>, 1)

RootLocation == normcomps(split(rootpath), <<>>, 1)

PreOrder ==
  /\ \A i, j \in MkdirIdx : i # j => calls[i].node # calls[j].node
  /\ \A j \in MkdirIdx :
       /\ calls[j].path = Mirror(calls[j].node)
       /\ calls[j].node # <<>> =>
            \E i \in MkdirIdx : i < j /\ calls[i].node = Front(calls[j].node)

\* C1 (as stated): when copy_from returns, the create-directory calls are
\* exactly the directories of the tree (symlinks not counted), each once,
\* parent before children.
C1_Original ==
  result = "ok" =>
    /\ PreOrder
    /\ { calls[i].node : i \in MkdirIdx } = { n \in DOMAIN fs : fs[n] = "dir" }

\* C1 (amended): the create-directory calls are, each exactly once and each
\* with the mirrored remote path, the entries that are directories or
\* symlinks to directories; a call for an entry comes after the call for its
\* parent, at every point of the run.
C1_MkdirPreOrder ==
  /\ PreOrder
  /\ result = "ok" =>
       { calls[i].node : i \in MkdirIdx } =
         { n \in DOMAIN fs : fs[n] \in {"dir", "linkdir"} }

C1_Witness ==
  /\ result = "ok"
  /\ Cardinality(MkdirIdx) >= 3
  /\ \E n \in DOMAIN fs : Len(n) = 2 /\ fs[n] = "dir"

UploadsWellFormed ==
  /\ \A i, j \in UploadIdx : i # j => calls[i].node # calls[j].node
  /\ \A i \in UploadIdx :
       /\ calls[i].node # <<>>
       /\ calls[i].path = Mirror(Front(calls[i].node))
       /\ calls[i].fileName = <<Last(calls[i].node)>>

\* C2 (as stated): when copy_from returns, the upload calls are exactly the
\* regular files of the tree (symlinks not counted), each once, with the
\* parent's remote path as destination and the base name as filename.
C2_Original ==
  result = "ok" =>
    /\ UploadsWellFormed
    /\ { calls[i].node : i \in UploadIdx } = { n \in DOMAIN fs : fs[n] = "file" }

\* C2 (amended): the upload calls are, each exactly once, the entries that
\* are regular files or symlinks to regular files; each carries the remote
\* path of the entry's parent directory as destination and the entry's base
\* name as filename.
C2_UploadsExact ==
  /\ UploadsWellFormed
  /\ result = "ok" =>
       { calls[i].node : i \in UploadIdx } =
         { n \in DOMAIN fs : fs[n] \in {"file", "linkfile"} }

C2_Witness ==
  /\ result = "ok"
  /\ Cardinality(UploadIdx) >= 2
  /\ \E i \in UploadIdx : Len(calls[i].node) = 2

\* C3 (as stated): no create-directory and no upload call is issued for a
\* symlink or other non-regular entry, whatever it points to.
C3_Original ==
  \A i \in 1..Len(calls) :
    KindOf(fs, calls[i].node) \notin {"other", "linkdir", "linkfile"}

\* C3 (amended): no call is issued for an entry that is neither a directory
\* nor a regular file after symlink resolution; a symlink to a directory is
\* created and recursed into, a symlink to a regular file is uploaded.
C3_SkipOther ==
  /\ \A i \in 1..Len(calls) :
       /\ KindOf(fs, calls[i].node) # "other"
       /\ calls[i].op = "mkdir" => KindOf(fs, calls[i].node) \in {"dir", "linkdir", "file", "missing"}
       /\ calls[i].op = "upload" => KindOf(fs, calls[i].node) \in {"file", "linkfile"}
  /\ result = "ok" =>
       \A n \in DOMAIN fs :
         /\ fs[n] = "linkdir" => \E i \in MkdirIdx : calls[i].node = n
         /\ fs[n] = "linkfile" => \E i \in UploadIdx : calls[i].node = n

C3_Witness ==
  /\ result = "ok"
  /\ \E n \in DOMAIN fs : fs[n] = "other"
  /\ \E n \in DOMAIN fs : fs[n] = "linkdir"
  /\ \E n \in DOMAIN fs : fs[n] = "linkfile"

\* C4: once a remote call has raised, no further remote call is issued and
\* the calls already issued stay as they are; the run ends with that error,
\* all activations of copy_from abandoned.
C4_AbortOnFirstError ==
  /\ [](failedAt # 0 =>
          /\ Len(calls) = failedAt
          /\ pc \in {"exit", "end"}
          /\ pc = "end" => (result = "AgaveError" /\ stack = <<>>))
  /\ [][failedAt # 0 => (calls' = calls /\ failedAt' = failedAt)]_vars

C4_Witness ==
  /\ pc = "end"
  /\ result = "AgaveError"
  /\ failedAt >= 2
  /\ Len(raisedNode) = 2
  /\ Cardinality({ n \in DOMAIN fs : fs[n] # "other" }) > Len(calls)

\* C5: an upload for the file at nested names n below the copied directory A
\* is sent to filePath R/A/<parent names> with the base name as fileName, and
\* an earlier create-directory call targets the same remote location.
C5_RoundTrip ==
  \A i \in UploadIdx :
    LET n == calls[i].node
        A == basename(normpath(arg))
    IN /\ A # <<>> =>
            /\ calls[i].filePath = rootpath \o <<Sep>> \o A \o SlashNames(Front(n))
            /\ calls[i].fileName = <<Last(n)>>
       /\ \E j \in MkdirIdx : j < i /\ Location(calls[j]) = Location(calls[i])

C5_Witness ==
  /\ arg = <<"x", Sep, "proj", Sep>>
  /\ \E i \in UploadIdx :
       /\ Len(calls[i].node) = 2
       /\ calls[i].filePath = rootpath \o <<Sep, "proj", Sep, calls[i].node[1]>>

\* C6: every remote call targets a location under the adapter's root path,
\* whatever directory argument main was given.
C6_UnderRoot ==
  \A i \in 1..Len(calls) : IsPrefix(RootLocation, Location(calls[i]))

\* C7: a local file handle is open exactly while an upload is in its with
\* block, so at most one is open at any point, and none is open once the run
\* has returned or failed.
C7_HandleScoped ==
  /\ handles \in {0, 1}
  /\ handles = 1 <=> pc \in {"importData", "exit"}
  /\ pc = "end" => handles = 0

C7_Witness ==
  /\ pc = "end"
  /\ result = "AgaveError"
  /\ raisedAt = "importData"
  /\ calls[Len(calls)].op = "upload"

IsFileKind(k) == k \in {"file", "linkfile"}

\* C8 (as stated): a listed file that vanishes between the listing of its
\* parent and its opening is never skipped by a run that goes on to return.
C8_Original ==
  \A r \in race :
    (IsFileKind(r.kind) /\ r.phase \in {"listed", "checked"}) => result # "ok"

\* C8 (amended): a file that vanishes after copy_from's isfile check and
\* before its open makes the open raise FileNotFoundError, which ends the run
\* with no remote call issued after the removal; a file that vanishes after
\* the listing and before the check is never uploaded.
C8_VanishAfterCheck ==
  \A r \in race :
    /\ r.phase = "checked" =>
         \/ pc = "open"
         \/ /\ pc = "end"
            /\ result = "FileNotFoundError"
            /\ raisedAt = "open"
            /\ raisedNode = r.node
            /\ Len(calls) = r.ncalls
    /\ (r.phase = "listed" /\ IsFileKind(r.kind)) =>
         \A i \in UploadIdx : calls[i].node # r.node

C8_Witness ==
  /\ pc = "end"
  /\ result = "FileNotFoundError"
  /\ \E r \in race : r.phase = "checked" /\ Len(r.node) = 2 /\ r.ncalls >= 2

\* C9: an upload into remote path P comes after the create-directory call
\* for P, and the create-directory call for P/name after the one for P.
C9_CreateBeforeUse ==
  \A i \in 1..Len(calls) :
    /\ calls[i].op = "upload" =>
         \E j \in MkdirIdx : j < i /\ calls[j].path = calls[i].path
    /\ (calls[i].op = "mkdir" /\ i > 1) =>
         \E j \in MkdirIdx :
           /\ j < i
           /\ calls[i].path =
                (IF calls[j].path = <<>> THEN <<>> ELSE calls[j].path \o <<Sep>>)
                  \o <<Last(calls[i].node)>>

C9_Witness ==
  \E i \in UploadIdx :
    /\ i >= 3
    /\ Len(calls[i].node) = 2
    /\ \E j \in MkdirIdx : j > i

\* C10: when the listing of a node raises, the create-directory call for
\* that node has been issued and is the last remote call of the run; for the
\* copied directory itself it is the only one.
C10_MkdirBeforeListing ==
  raisedAt = "listdir" =>
    /\ pc = "end"
    /\ result \in {"FileNotFoundError", "NotADirectoryError", "PermissionError"}
    /\ Len(calls) >= 1
    /\ calls[Len(calls)].op = "mkdir"
    /\ calls[Len(calls)].node = raisedNode
    /\ raisedNode = <<>> => Len(calls) = 1

C10_Witness ==
  /\ raisedAt = "listdir"
  /\ result = "FileNotFoundError"
  /\ Len(calls) = 1

====
